---- MODULE Spec2Model ----
(***************************************************************************)
(* State-machine model of src/app.py: the monthly -> daily production      *)
(* scheduler (calendar helpers, proportional_quotas, schedule_month with   *)
(* its nested allocate_day, build_schedule, finalize_output and the UI     *)
(* execution block).                                                       *)
(*                                                                         *)
(* Dates are proleptic Gregorian ordinals (datetime.date.toordinal), so    *)
(* d.weekday() is (d + 6) % 7 and "d + timedelta(days=1)" is d + 1.        *)
(* Python dicts are modelled as a key sequence (insertion order) plus a    *)
(* function on the keys.                                                   *)
(***************************************************************************)
EXTENDS Integers, Sequences, FiniteSets, TLC

(***************************************************************************)
(* Bounds of the model (not program constants).                            *)
(***************************************************************************)
MaxQty == 2
MaxUnits == 4
MaxHorizonUnits == 3
MaxCap == 2
MaxSat == 2
MaxLookback == 1
MaxLimit == 1
MaxBalance == 4
MaxS == 4
MaxQLimit == 2
MaxWideBalance == 7
MaxPrevDays == 3
MaxDayUnits == 5
MaxDayCap == 4
MaxDayLimit == 2
MaxDayQty == 3
MaxKeys == 5

(***************************************************************************)
(* Program constants.                                                      *)
(***************************************************************************)
SATURDAY == 5
GUARD_LIMIT == 50000

None == <<>>
Some(x) == <<x>>
Min(a, b) == IF a <= b THEN a ELSE b

RECURSIVE SumSeq(_)
SumSeq(s) == IF s = <<>> THEN 0 ELSE Head(s) + SumSeq(Tail(s))

(***************************************************************************)
(* datetime.date / calendar.monthrange                                     *)
(***************************************************************************)
IsLeap(y) == (y % 4 = 0) /\ ((y % 100 # 0) \/ (y % 400 = 0))

monthrange(y, m) ==
    IF m = 2 THEN (IF IsLeap(y) THEN 29 ELSE 28)
    ELSE IF m \in {4, 6, 9, 11} THEN 30 ELSE 31

RECURSIVE DaysBeforeMonth(_, _)
DaysBeforeMonth(y, m) ==
    IF m = 1 THEN 0 ELSE DaysBeforeMonth(y, m - 1) + monthrange(y, m - 1)

date(y, m, d) ==
    (y - 1) * 365 + ((y - 1) \div 4) - ((y - 1) \div 100) + ((y - 1) \div 400)
    + DaysBeforeMonth(y, m) + d

weekday(d) == (d + 6) % 7

(***************************************************************************)
(* Calendar utilities, src/app.py lines 141-197                            *)
(***************************************************************************)
RECURSIVE first_business_day_from(_, _)
first_business_day_from(d, feriados) ==
    IF weekday(d) >= 5 \/ d \in feriados
    THEN first_business_day_from(d + 1, feriados)
    ELSE d

first_business_day(year, month, feriados) ==
    first_business_day_from(date(year, month, 1), feriados)

month_days(year, month) ==
    [day \in 1..monthrange(year, month) |-> date(year, month, day)]

business_days_in_month(year, month, feriados) ==
    LET Keep(d) == weekday(d) < 5 /\ d \notin feriados
    IN  SelectSeq(month_days(year, month), Keep)

\* mutant: holidays are not removed from the Saturdays
saturdays_in_month_with_holidays(year, month, feriados) ==
    LET Keep(d) == weekday(d) = SATURDAY
    IN  SelectSeq(month_days(year, month), Keep)

saturdays_in_month(year, month, feriados) ==
    LET Keep(d) == weekday(d) = SATURDAY /\ d \notin feriados
    IN  SelectSeq(month_days(year, month), Keep)

RECURSIVE InsertAsc(_, _)
InsertAsc(x, s) ==
    IF s = <<>> THEN <<x>>
    ELSE IF x <= Head(s) THEN <<x>> \o s
         ELSE <<Head(s)>> \o InsertAsc(x, Tail(s))

\* list.sort() on a list of dates
RECURSIVE SortAsc(_)
SortAsc(s) == IF s = <<>> THEN <<>> ELSE InsertAsc(Head(s), SortAsc(Tail(s)))

\* the backward scan of previous_business_days (prev in append order)
RECURSIVE previous_scan(_, _, _, _)
previous_scan(cur, prev, n, feriados) ==
    IF Len(prev) >= n THEN prev
    ELSE IF weekday(cur) < 5 /\ cur \notin feriados
         THEN previous_scan(cur - 1, Append(prev, cur), n, feriados)
         ELSE previous_scan(cur - 1, prev, n, feriados)

\* mutant: the list is returned in the order of the backward scan
previous_business_days_unsorted(year, month, n, feriados) ==
    IF n <= 0 THEN <<>>
    ELSE previous_scan(first_business_day(year, month, feriados) - 1,
                       <<>>, n, feriados)

previous_business_days(year, month, n, feriados) ==
    IF n <= 0 THEN <<>>
    ELSE SortAsc(previous_scan(first_business_day(year, month, feriados) - 1,
                               <<>>, n, feriados))

RECURSIVE enumerate_from(_, _)
enumerate_from(d, stop) ==
    IF d[1] > stop[1] \/ (d[1] = stop[1] /\ d[2] > stop[2]) THEN <<>>
    ELSE <<d>> \o enumerate_from(IF d[2] = 12 THEN <<d[1] + 1, 1>> ELSE <<d[1], d[2] + 1>>, stop)

enumerate_months(start, end) == enumerate_from(start, end)

(***************************************************************************)
(* Demand keys.  Model names and market names are strings; ModelNames      *)
(* lists the model names in ascending string order (Python str compare).   *)
(***************************************************************************)
ModelNames == <<"A", "B", "C">>
NameRank(m) == CHOOSE i \in 1..Len(ModelNames) : ModelNames[i] = m
ModelSet == {ModelNames[i] : i \in 1..Len(ModelNames)}

\* str(merc).strip().upper() on the market names of the model
StripUpper(merc) ==
    IF merc = "mercado interno " THEN "MERCADO INTERNO" ELSE merc

IsMI(merc) == StripUpper(merc) = "MERCADO INTERNO"

(***************************************************************************)
(* proportional_quotas, src/app.py lines 258-297.                          *)
(* balance_by_model is (models, bal): the keys in insertion order and the  *)
(* balances.  limit_per_model is None or Some(c).                          *)
(***************************************************************************)
RECURSIVE SumOver(_, _)
SumOver(models, f) ==
    IF models = <<>> THEN 0 ELSE f[Head(models)] + SumOver(Tail(models), f)

SeqRange(s) == {s[i] : i \in 1..Len(s)}

RECURSIVE GCD(_, _)
GCD(a, b) == IF b = 0 THEN a ELSE GCD(b, a % b)

RECURSIVE IsPow2(_)
IsPow2(n) == n = 1 \/ (n > 1 /\ n % 2 = 0 /\ IsPow2(n \div 2))

\* n / d (true division of two small non-negative ints, d > 0) is an exactly
\* representable float iff the reduced denominator is a power of two
ExactFloat(n, d) == IsPow2(d \div GCD(n, d))

base_floors(models, bal, S, limit_per_model) ==
    LET total == SumOver(models, bal)
        raw == [m \in SeqRange(models) |-> (bal[m] * S) \div total]
    IN  IF limit_per_model # None
        THEN [m \in SeqRange(models) |-> Min(Min(raw[m], limit_per_model[1]), bal[m])]
        ELSE [m \in SeqRange(models) |-> Min(raw[m], bal[m])]

\* rest = balance*S/total - floors[m], as the exact numerator over total
rest_num(m, bal, S, total, floors) == bal[m] * S - floors[m] * total

\* the two float values "rest" of a and b are certainly the same float: the
\* same inputs, or both quotients exact (then the subtraction is exact too)
same_float(a, b, bal, S, total) ==
    \/ bal[a] = bal[b]
    \/ ExactFloat(bal[a] * S, total) /\ ExactFloat(bal[b] * S, total)

\* mutant: equal remainders are ordered by the model name ascending
sorts_before_name_ascending(a, b, bal, S, total, floors) ==
    LET ra == rest_num(a, bal, S, total, floors)
        rb == rest_num(b, bal, S, total, floors)
    IN  \/ ra > rb
        \/ ra = rb /\ (same_float(a, b, bal, S, total) => NameRank(a) < NameRank(b))

\* (rest, m) tuples: a sorts before b under rema_list.sort(reverse=True).
\* Rests that differ as rationals differ by at least 1/total and keep their
\* order as floats; equal rests computed from different inexact quotients
\* may round either way, so both orders are allowed.
sorts_before(a, b, bal, S, total, floors) ==
    LET ra == rest_num(a, bal, S, total, floors)
        rb == rest_num(b, bal, S, total, floors)
    IN  \/ ra > rb
        \/ ra = rb /\ (same_float(a, b, bal, S, total) => NameRank(a) > NameRank(b))

Perms(models) ==
    {p \in [1..Len(models) -> SeqRange(models)] :
        \A i, j \in 1..Len(models) : i # j => p[i] # p[j]}

\* the possible values of rema_list (its model column) after the sort
rema_list_sorted(models, bal, S, limit_per_model) ==
    LET total == SumOver(models, bal)
        floors == base_floors(models, bal, S, limit_per_model)
    IN  {p \in Perms(models) :
            \A i, j \in 1..Len(models) :
                i < j => sorts_before(p[i], p[j], bal, S, total, floors)}

\* mutant: the extra unit is granted without looking at the ceiling
RECURSIVE largest_remainders_no_ceiling(_, _, _, _, _)
largest_remainders_no_ceiling(rema_list, bal, limit_per_model, floors, remainder) ==
    IF rema_list = <<>> \/ remainder <= 0 THEN floors
    ELSE largest_remainders_no_ceiling(Tail(rema_list), bal, limit_per_model,
                                       [floors EXCEPT ![Head(rema_list)] = @ + 1],
                                       remainder - 1)

\* mutant: the head of rema_list keeps receiving units while it can accept
RECURSIVE largest_remainders_head_first(_, _, _, _, _)
largest_remainders_head_first(rema_list, bal, limit_per_model, floors, remainder) ==
    IF rema_list = <<>> \/ remainder <= 0 THEN floors
    ELSE LET m == Head(rema_list)
             cap_m == bal[m]
             ceil_m == IF limit_per_model # None
                       THEN Min(limit_per_model[1], cap_m) ELSE cap_m
         IN  IF floors[m] >= ceil_m
             THEN largest_remainders_head_first(Tail(rema_list), bal, limit_per_model,
                                                floors, remainder)
             ELSE largest_remainders_head_first(rema_list, bal, limit_per_model,
                                                [floors EXCEPT ![m] = @ + 1],
                                                remainder - 1)

\* the loop "for _, m in rema_list" (lines 283-296)
RECURSIVE largest_remainders(_, _, _, _, _)
largest_remainders(rema_list, bal, limit_per_model, floors, remainder) ==
    IF rema_list = <<>> \/ remainder <= 0 THEN floors
    ELSE LET m == Head(rema_list)
             cap_m == bal[m]
             ceil_m == IF limit_per_model # None
                       THEN Min(limit_per_model[1], cap_m) ELSE cap_m
         IN  IF floors[m] >= ceil_m
             THEN largest_remainders(Tail(rema_list), bal, limit_per_model,
                                     floors, remainder)
             ELSE largest_remainders(Tail(rema_list), bal, limit_per_model,
                                     [floors EXCEPT ![m] = @ + 1], remainder - 1)

\* mutant: the remainder is never distributed
proportional_quotas_floors_only(models, bal, S, limit_per_model, rema_list) ==
    IF SumOver(models, bal) = 0 \/ S = 0 THEN [m \in SeqRange(models) |-> 0]
    ELSE base_floors(models, bal, S, limit_per_model)

proportional_quotas(models, bal, S, limit_per_model, rema_list) ==
    LET total == SumOver(models, bal)
    IN  IF total = 0 \/ S = 0 THEN [m \in SeqRange(models) |-> 0]
        ELSE LET floors == base_floors(models, bal, S, limit_per_model)
                 remainder == S - SumOver(models, floors)
             IN  IF remainder > 0
                 THEN largest_remainders(rema_list, bal, limit_per_model,
                                         floors, remainder)
                 ELSE floors

\* every result proportional_quotas can return for these arguments
quota_results(models, bal, S, limit_per_model) ==
    IF SumOver(models, bal) = 0 \/ S = 0
    THEN {proportional_quotas(models, bal, S, limit_per_model, <<>>)}
    ELSE {proportional_quotas(models, bal, S, limit_per_model, r) :
             r \in rema_list_sorted(models, bal, S, limit_per_model)}

(***************************************************************************)
(* Inputs.  Rows are the (PRODUTO, MERCADO, MODELO) keys of df_agg in the  *)
(* order groupby leaves them (sorted by PRODUTO, MERCADO, MODELO).         *)
(***************************************************************************)
Rows ==
    << [PRODUTO |-> "P1", MERCADO |-> "EXPORT",           MODELO |-> "B"],
       [PRODUTO |-> "P1", MERCADO |-> "MERCADO INTERNO",  MODELO |-> "A"],
       [PRODUTO |-> "P2", MERCADO |-> "EXPORT",           MODELO |-> "A"],
       [PRODUTO |-> "P2", MERCADO |-> "mercado interno ", MODELO |-> "B"],
       [PRODUTO |-> "P3", MERCADO |-> "EXPORT",           MODELO |-> "A"],
       [PRODUTO |-> "P3", MERCADO |-> "EXPORT",           MODELO |-> "C"],
       [PRODUTO |-> "P3", MERCADO |-> "MERCADO INTERNO",  MODELO |-> "A"] >>

NRows == Len(Rows)

ProductNames == <<"P1", "P2", "P3">>
ProductRank(p) == CHOOSE i \in 1..Len(ProductNames) : ProductNames[i] = p

\* the holiday lists offered to the model: none; a calendar with two business
\* days (1 and 31 July), two Saturdays in July, one business day and one
\* Saturday in August; a calendar whose 1st of July is a holiday, with one
\* business day and one Saturday in July and one business day in August
WindowDays == date(2026, 6, 22) .. date(2026, 8, 31)

HolidayLists ==
    { {},
      WindowDays \ { date(2026, 6, 30), date(2026, 7, 1), date(2026, 7, 4),
                     date(2026, 7, 11), date(2026, 7, 31), date(2026, 8, 3),
                     date(2026, 8, 8) },
      WindowDays \ { date(2026, 6, 29), date(2026, 7, 2), date(2026, 7, 4),
                     date(2026, 8, 4) } }

\* horizons of one month and of two consecutive months
OneMonth == { << <<2026, 7>>, <<2026, 7>> >> }
TwoMonths == { << <<2026, 7>>, <<2026, 8>> >> }

RECURSIVE TotalQty(_)
TotalQty(cols) == IF cols = <<>> THEN 0 ELSE SumSeq(Head(cols)) + TotalQty(Tail(cols))

\* the month columns of df_agg for a horizon of n months, at most u units,
\* with demand on the first MaxKeys rows
Demands(n, u) ==
    LET keys == Min(MaxKeys, NRows)
    IN  {[i \in 1..n |-> [k \in 1..NRows |-> IF k <= keys THEN c[i][k] ELSE 0]] :
            c \in {x \in [1..n -> [1..keys -> 0..MaxQty]] : TotalQty(x) <= u}}

\* one month column with cells up to MaxDayQty, at most MaxDayUnits units
DayDemands ==
    {cols \in [1..1 -> [1..NRows -> 0..MaxDayQty]] : TotalQty(cols) <= MaxDayUnits}

VARIABLES
    intervalo,                 \* UI: (start, end) of the horizon, as (year, month)
    df_agg,                    \* month columns of the aggregated demand
    limite_diario_por_modelo,  \* UI number_input, 0 = off
    teto_sabado,
    capacidade_dia_util,
    feriados_set,
    dias_uteis_anteriores,
    pc,                        \* position in build_schedule / schedule_month
    mi,                        \* build_schedule: index of the month of the loop
    all_rows,
    relatorios,
    saldo_prod,                \* schedule_month: ledger, by row
    necessario_inicial,
    used_weekdays,
    saturday_plan,
    results_month,
    remaining_to_allocate,
    di,                        \* index of the day loop in progress
    ad,                        \* locals of the allocate_day call in progress
    err,                       \* the exception raised, if any
    out,                       \* what the UI block ends with
    qin,                       \* arguments of a direct proportional_quotas call
    qout,                      \* its result
    cin,                       \* arguments of a direct previous_business_days call
    cout                       \* its result, with first_business_day

inputs == <<intervalo, df_agg, limite_diario_por_modelo, teto_sabado,
            capacidade_dia_util, feriados_set, dias_uteis_anteriores>>
month_vars == <<saldo_prod, necessario_inicial, used_weekdays, saturday_plan,
                results_month, remaining_to_allocate, di, ad>>
quota_vars == <<qin, qout, cin, cout>>
vars == <<inputs, pc, mi, all_rows, relatorios, month_vars, err, out, quota_vars>>

months == enumerate_months(intervalo[1], intervalo[2])

\* lmt of the UI block (line 568)
lmt == IF limite_diario_por_modelo > 0 THEN Some(limite_diario_por_modelo) ELSE None

NoDay ==
    [day_date |-> 0, S |-> 0, qkeys |-> <<>>, quotas |-> <<>>, quotas0 |-> <<>>,
     per_model_priority |-> <<>>, per_model_mi |-> <<>>, produced |-> 0,
     model_order |-> <<>>, idx |-> 0, guard |-> 0, caller |-> "none"]

NoQuotaCall == [models |-> <<>>, bal |-> <<>>, S |-> 0, limit |-> None]

NoCalendarCall == [year |-> 0, month |-> 0, n |-> 0, feriados |-> {}]

InitWith(intervals, units) ==
    /\ intervalo \in intervals
    /\ df_agg \in Demands(Len(enumerate_months(intervalo[1], intervalo[2])), units)
    /\ limite_diario_por_modelo \in 0..MaxLimit
    /\ teto_sabado \in 1..MaxSat
    /\ capacidade_dia_util \in 1..MaxCap
    /\ feriados_set \in HolidayLists
    /\ dias_uteis_anteriores \in 0..MaxLookback
    /\ pc = "build"
    /\ mi = 1
    /\ all_rows = <<>>
    /\ relatorios = <<>>
    /\ saldo_prod = <<>>
    /\ necessario_inicial = 0
    /\ used_weekdays = <<>>
    /\ saturday_plan = <<>>
    /\ results_month = <<>>
    /\ remaining_to_allocate = 0
    /\ di = 0
    /\ ad = NoDay
    /\ err = None
    /\ out = [status |-> "none", prog |-> <<>>, rel |-> <<>>]
    /\ qin = NoQuotaCall
    /\ qout = <<>>
    /\ cin = NoCalendarCall
    /\ cout = <<>>

(***************************************************************************)
(* schedule_month: planning part, lines 314-352                            *)
(***************************************************************************)
\* mutant: a Saturday takes the whole excess
RECURSIVE plan_saturdays_uncapped(_, _, _, _)
plan_saturdays_uncapped(sats, excedente, teto, plan) ==
    IF sats = <<>> \/ excedente <= 0 THEN <<plan, excedente>>
    ELSE plan_saturdays_uncapped(Tail(sats), 0, teto,
                                 Append(plan, <<Head(sats), excedente>>))

\* mutant: the Saturdays are taken from the last one backwards
RECURSIVE plan_saturdays_latest_first(_, _, _, _)
plan_saturdays_latest_first(sats, excedente, teto, plan) ==
    IF sats = <<>> \/ excedente <= 0 THEN <<plan, excedente>>
    ELSE LET cap_sab == Min(teto, excedente)
         IN  plan_saturdays_latest_first(SubSeq(sats, 1, Len(sats) - 1),
                                         excedente - cap_sab, teto,
                                         <<<<sats[Len(sats)], cap_sab>>>> \o plan)

\* the loop "for s in sats" (lines 344-349): <<saturday_plan, excedente>>
RECURSIVE plan_saturdays(_, _, _, _)
plan_saturdays(sats, excedente, teto, plan) ==
    IF sats = <<>> \/ excedente <= 0 THEN <<plan, excedente>>
    ELSE LET cap_sab == Min(teto, excedente)
         IN  plan_saturdays(Tail(sats), excedente - cap_sab, teto,
                            Append(plan, <<Head(sats), cap_sab>>))

all_weekdays_of(year, month, lookback, feriados) ==
    previous_business_days(year, month, lookback, feriados)
        \o business_days_in_month(year, month, feriados)

\* mutant: the weekday capacity leaves the lookback days out
month_plan_no_lookback(year, month, necessario, WEEKDAY_CAP, teto, lookback, feriados) ==
    LET all_weekdays == all_weekdays_of(year, month, lookback, feriados)
        capacidade_weekdays_total ==
            Len(business_days_in_month(year, month, feriados)) * WEEKDAY_CAP
    IN  IF necessario <= capacidade_weekdays_total
        THEN LET need_days == IF necessario > 0
                              THEN (necessario + WEEKDAY_CAP - 1) \div WEEKDAY_CAP
                              ELSE 0
             IN  [used_weekdays |-> SubSeq(all_weekdays, 1, need_days),
                  saturday_plan |-> <<>>,
                  excedente |-> 0]
        ELSE LET sp == plan_saturdays(saturdays_in_month(year, month, feriados),
                                      necessario - capacidade_weekdays_total,
                                      teto, <<>>)
             IN  [used_weekdays |-> all_weekdays,
                  saturday_plan |-> sp[1],
                  excedente |-> sp[2]]

\* [used_weekdays, saturday_plan, excedente] for a month's total demand
month_plan(year, month, necessario, WEEKDAY_CAP, teto, lookback, feriados) ==
    LET all_weekdays == all_weekdays_of(year, month, lookback, feriados)
        capacidade_weekdays_total == Len(all_weekdays) * WEEKDAY_CAP
    IN  IF necessario <= capacidade_weekdays_total
        THEN LET need_days == IF necessario > 0
                              THEN (necessario + WEEKDAY_CAP - 1) \div WEEKDAY_CAP
                              ELSE 0
             IN  [used_weekdays |-> SubSeq(all_weekdays, 1, need_days),
                  saturday_plan |-> <<>>,
                  excedente |-> 0]
        ELSE LET sp == plan_saturdays(saturdays_in_month(year, month, feriados),
                                      necessario - capacidade_weekdays_total,
                                      teto, <<>>)
             IN  [used_weekdays |-> all_weekdays,
                  saturday_plan |-> sp[1],
                  excedente |-> sp[2]]

ZeroReport(y, m, dias_uteis, capacidade) ==
    [year |-> y, month |-> m, dias_uteis |-> dias_uteis, capacidade |-> capacidade,
     necessario |-> 0, programado |-> 0, unid_dia_extra |-> 0, desvio |-> 0,
     utilizacao |-> <<0, 1>>]

\* build_schedule loop head (lines 447-478) and the call of schedule_month up
\* to the end of its planning (lines 314-352)
BuildScheduleMonth ==
    /\ pc = "build"
    /\ mi <= Len(months)
    /\ LET y == months[mi][1]
           m == months[mi][2]
           qty == df_agg[mi]
           necessario == SumSeq(qty)
           dias_uteis == Len(business_days_in_month(y, m, feriados_set))
           capacidade == dias_uteis * capacidade_dia_util
           plan == month_plan(y, m, necessario, capacidade_dia_util, teto_sabado,
                              dias_uteis_anteriores, feriados_set)
       IN  IF necessario = 0
           THEN /\ relatorios' = Append(relatorios, ZeroReport(y, m, dias_uteis, capacidade))
                /\ mi' = mi + 1
                /\ UNCHANGED <<pc, month_vars, err>>
           ELSE /\ saldo_prod' = qty
                /\ necessario_inicial' = necessario
                /\ used_weekdays' = plan.used_weekdays
                /\ saturday_plan' = plan.saturday_plan
                /\ results_month' = <<>>
                /\ remaining_to_allocate' = necessario
                /\ di' = 1
                /\ ad' = NoDay
                /\ IF plan.excedente > 0
                   THEN /\ pc' = "raised"
                        /\ err' = Some([kind |-> "overflow", qty |-> plan.excedente,
                                        year |-> y, month |-> m])
                   ELSE /\ pc' = "weekdays"
                        /\ err' = err
                /\ UNCHANGED <<mi, relatorios>>
    /\ UNCHANGED <<inputs, all_rows, out, quota_vars>>

(***************************************************************************)
(* schedule_month.allocate_day, lines 354-417                              *)
(***************************************************************************)
\* keys of balance_by_model in insertion order (lines 356-359)
RECURSIVE balance_keys(_, _, _)
balance_keys(saldo, i, acc) ==
    IF i > NRows THEN acc
    ELSE IF saldo[i] > 0 /\ Rows[i].MODELO \notin SeqRange(acc)
         THEN balance_keys(saldo, i + 1, Append(acc, Rows[i].MODELO))
         ELSE balance_keys(saldo, i + 1, acc)

RECURSIVE balance_of(_, _, _)
balance_of(saldo, mod, i) ==
    IF i > NRows THEN 0
    ELSE (IF saldo[i] > 0 /\ Rows[i].MODELO = mod THEN saldo[i] ELSE 0)
         + balance_of(saldo, mod, i + 1)

balance_by_model(saldo) ==
    LET keys == balance_keys(saldo, 1, <<>>)
    IN  [models |-> keys, bal |-> [m \in SeqRange(keys) |-> balance_of(saldo, m, 1)]]

\* the (prod, merc) pairs of one model with a positive balance, of the
\* domestic tier (mi = TRUE) or of the priority tier (lines 370-378)
RECURSIVE model_queue(_, _, _, _)
model_queue(saldo, mod, mi_tier, i) ==
    IF i > NRows THEN <<>>
    ELSE (IF saldo[i] > 0 /\ Rows[i].MODELO = mod /\ IsMI(Rows[i].MERCADO) = mi_tier
          THEN << <<Rows[i].PRODUTO, Rows[i].MERCADO>> >> ELSE <<>>)
         \o model_queue(saldo, mod, mi_tier, i + 1)

KeyIndex(prod, merc, mod) ==
    CHOOSE i \in 1..NRows :
        Rows[i] = [PRODUTO |-> prod, MERCADO |-> merc, MODELO |-> mod]

\* mutant: the per-model limit is never passed on
day_limit_off(limite) == None

\* limit of allocate_day (line 364); the parameter is lmt of the UI block
day_limit(limite) ==
    IF limite # None /\ limite[1] > 0 THEN limite ELSE None

\* lines 355-383: the locals of allocate_day when its loop starts
day_locals(saldo, day_date, S, quotas, caller) ==
    LET b == balance_by_model(saldo)
    IN  [day_date |-> day_date, S |-> S, qkeys |-> b.models, quotas |-> quotas,
         quotas0 |-> quotas,
         per_model_priority |-> [m \in SeqRange(b.models) |-> model_queue(saldo, m, FALSE, 1)],
         per_model_mi |-> [m \in SeqRange(b.models) |-> model_queue(saldo, m, TRUE, 1)],
         produced |-> 0,
         model_order |-> SelectSeq(b.models, LAMBDA m : quotas[m] > 0),
         idx |-> 0, guard |-> 0, caller |-> caller]

\* allocate_day returns at line 361 without doing anything
returns_at_once(saldo, S) == balance_by_model(saldo).models = <<>> \/ S <= 0

\* the call allocate_day(day_date, S, results_month) up to its loop
AllocateDayCall(day_date, S, caller) ==
    LET b == balance_by_model(saldo_prod)
    IN  \E quotas \in quota_results(b.models, b.bal, S, day_limit(lmt)) :
            /\ ad' = day_locals(saldo_prod, day_date, S, quotas, caller)
            /\ pc' = "alloc"

\* the weekday loop of schedule_month, lines 423-429 (one iteration)
WeekdayLoop ==
    /\ pc = "weekdays"
    /\ IF di > Len(used_weekdays) \/ remaining_to_allocate <= 0
       THEN /\ pc' = "saturdays"
            /\ di' = 1
            /\ UNCHANGED <<ad, remaining_to_allocate>>
       ELSE LET cap == Min(capacidade_dia_util, remaining_to_allocate)
            IN  IF returns_at_once(saldo_prod, cap)
                THEN /\ remaining_to_allocate' = SumSeq(saldo_prod)
                     /\ di' = di + 1
                     /\ UNCHANGED <<pc, ad>>
                ELSE /\ AllocateDayCall(used_weekdays[di], cap, "weekdays")
                     /\ UNCHANGED <<di, remaining_to_allocate>>
    /\ UNCHANGED <<inputs, mi, all_rows, relatorios, saldo_prod, necessario_inicial,
                   used_weekdays, saturday_plan, results_month, err, out, quota_vars>>

\* the Saturday loop of schedule_month, lines 431-434 (one iteration)
SaturdayLoop ==
    /\ pc = "saturdays"
    /\ IF di > Len(saturday_plan) \/ SumSeq(saldo_prod) <= 0
       THEN /\ pc' = "check"
            /\ UNCHANGED <<di, ad>>
       ELSE IF returns_at_once(saldo_prod, saturday_plan[di][2])
            THEN /\ di' = di + 1
                 /\ UNCHANGED <<pc, ad>>
            ELSE /\ AllocateDayCall(saturday_plan[di][1], saturday_plan[di][2], "saturdays")
                 /\ UNCHANGED di
    /\ UNCHANGED <<inputs, mi, all_rows, relatorios, saldo_prod, necessario_inicial,
                   used_weekdays, saturday_plan, results_month, remaining_to_allocate,
                   err, out, quota_vars>>

\* mutant: the iteration guard stops the loop after two iterations
loop_condition_guard_2(a) ==
    /\ a.produced < a.S
    /\ \E m \in SeqRange(a.qkeys) : a.quotas[m] > 0
    /\ a.guard < 2

\* the while condition of line 384
loop_condition(a) ==
    /\ a.produced < a.S
    /\ \E m \in SeqRange(a.qkeys) : a.quotas[m] > 0
    /\ a.guard < GUARD_LIMIT

Event(day_date, prod, m, merc, year, month) ==
    [date |-> day_date, PRODUTO |-> prod, MODELO |-> m, MERCADO |-> merc,
     mes_ref_year |-> year, mes_ref_month |-> month]

\* mutant: the domestic queue is served before the priority queue
day_step_mi_first(a, saldo, results, year, month) ==
    LET g == [a EXCEPT !.guard = @ + 1]
        m == a.model_order[(a.idx % Len(a.model_order)) + 1]
        use_priority == a.per_model_mi[m] = <<>>
        chosen_list == IF use_priority THEN a.per_model_priority[m]
                       ELSE a.per_model_mi[m]
        prod == chosen_list[1][1]
        merc == chosen_list[1][2]
        key == KeyIndex(prod, merc, m)
        popped == Tail(chosen_list)
        rotated == Append(Tail(chosen_list), Head(chosen_list))
        with_list(r, l) == IF use_priority
                           THEN [r EXCEPT !.per_model_priority[m] = l]
                           ELSE [r EXCEPT !.per_model_mi[m] = l]
    IN  IF a.quotas[m] <= 0
        THEN <<[g EXCEPT !.idx = @ + 1], saldo, results>>
        ELSE IF chosen_list = <<>>
        THEN <<[g EXCEPT !.quotas[m] = 0, !.idx = @ + 1], saldo, results>>
        ELSE IF saldo[key] <= 0
        THEN <<with_list(g, popped), saldo, results>>
        ELSE <<with_list([g EXCEPT !.quotas[m] = @ - 1, !.produced = @ + 1,
                                   !.idx = @ + 1], rotated),
               [saldo EXCEPT ![key] = @ - 1],
               Append(results, Event(a.day_date, prod, m, merc, year, month))>>

\* mutant: the head of the queue is consumed without looking at its balance
day_step_no_balance_check(a, saldo, results, year, month) ==
    LET g == [a EXCEPT !.guard = @ + 1]
        m == a.model_order[(a.idx % Len(a.model_order)) + 1]
        use_priority == a.per_model_priority[m] # <<>>
        chosen_list == IF use_priority THEN a.per_model_priority[m]
                       ELSE a.per_model_mi[m]
        prod == chosen_list[1][1]
        merc == chosen_list[1][2]
        key == KeyIndex(prod, merc, m)
        rotated == Append(Tail(chosen_list), Head(chosen_list))
        with_list(r, l) == IF use_priority
                           THEN [r EXCEPT !.per_model_priority[m] = l]
                           ELSE [r EXCEPT !.per_model_mi[m] = l]
    IN  IF a.quotas[m] <= 0
        THEN <<[g EXCEPT !.idx = @ + 1], saldo, results>>
        ELSE IF chosen_list = <<>>
        THEN <<[g EXCEPT !.quotas[m] = 0, !.idx = @ + 1], saldo, results>>
        ELSE <<with_list([g EXCEPT !.quotas[m] = @ - 1, !.produced = @ + 1,
                                   !.idx = @ + 1], rotated),
               [saldo EXCEPT ![key] = @ - 1],
               Append(results, Event(a.day_date, prod, m, merc, year, month))>>

\* mutant: idx stays on the model that has just been served
day_step_same_model(a, saldo, results, year, month) ==
    LET g == [a EXCEPT !.guard = @ + 1]
        m == a.model_order[(a.idx % Len(a.model_order)) + 1]
        use_priority == a.per_model_priority[m] # <<>>
        chosen_list == IF use_priority THEN a.per_model_priority[m]
                       ELSE a.per_model_mi[m]
        prod == chosen_list[1][1]
        merc == chosen_list[1][2]
        key == KeyIndex(prod, merc, m)
        popped == Tail(chosen_list)
        rotated == Append(Tail(chosen_list), Head(chosen_list))
        with_list(r, l) == IF use_priority
                           THEN [r EXCEPT !.per_model_priority[m] = l]
                           ELSE [r EXCEPT !.per_model_mi[m] = l]
    IN  IF a.quotas[m] <= 0
        THEN <<[g EXCEPT !.idx = @ + 1], saldo, results>>
        ELSE IF chosen_list = <<>>
        THEN <<[g EXCEPT !.quotas[m] = 0, !.idx = @ + 1], saldo, results>>
        ELSE IF saldo[key] <= 0
        THEN <<with_list(g, popped), saldo, results>>
        ELSE <<with_list([g EXCEPT !.quotas[m] = @ - 1, !.produced = @ + 1], rotated),
               [saldo EXCEPT ![key] = @ - 1],
               Append(results, Event(a.day_date, prod, m, merc, year, month))>>

\* mutant: the pair served stays at the head of its queue
day_step_no_rotation(a, saldo, results, year, month) ==
    LET g == [a EXCEPT !.guard = @ + 1]
        m == a.model_order[(a.idx % Len(a.model_order)) + 1]
        use_priority == a.per_model_priority[m] # <<>>
        chosen_list == IF use_priority THEN a.per_model_priority[m]
                       ELSE a.per_model_mi[m]
        prod == chosen_list[1][1]
        merc == chosen_list[1][2]
        key == KeyIndex(prod, merc, m)
        popped == Tail(chosen_list)
        with_list(r, l) == IF use_priority
                           THEN [r EXCEPT !.per_model_priority[m] = l]
                           ELSE [r EXCEPT !.per_model_mi[m] = l]
    IN  IF a.quotas[m] <= 0
        THEN <<[g EXCEPT !.idx = @ + 1], saldo, results>>
        ELSE IF chosen_list = <<>>
        THEN <<[g EXCEPT !.quotas[m] = 0, !.idx = @ + 1], saldo, results>>
        ELSE IF saldo[key] <= 0
        THEN <<with_list(g, popped), saldo, results>>
        ELSE <<[g EXCEPT !.quotas[m] = @ - 1, !.produced = @ + 1, !.idx = @ + 1],
               [saldo EXCEPT ![key] = @ - 1],
               Append(results, Event(a.day_date, prod, m, merc, year, month))>>

\* one iteration of the while loop, lines 384-417: <<ad, saldo_prod, results>>
day_step(a, saldo, results, year, month) ==
    LET g == [a EXCEPT !.guard = @ + 1]
        m == a.model_order[(a.idx % Len(a.model_order)) + 1]
        use_priority == a.per_model_priority[m] # <<>>
        chosen_list == IF use_priority THEN a.per_model_priority[m]
                       ELSE a.per_model_mi[m]
        prod == chosen_list[1][1]
        merc == chosen_list[1][2]
        key == KeyIndex(prod, merc, m)
        popped == Tail(chosen_list)
        rotated == Append(Tail(chosen_list), Head(chosen_list))
        with_list(r, l) == IF use_priority
                           THEN [r EXCEPT !.per_model_priority[m] = l]
                           ELSE [r EXCEPT !.per_model_mi[m] = l]
    IN  IF a.quotas[m] <= 0
        THEN <<[g EXCEPT !.idx = @ + 1], saldo, results>>
        ELSE IF chosen_list = <<>>
        THEN <<[g EXCEPT !.quotas[m] = 0, !.idx = @ + 1], saldo, results>>
        ELSE IF saldo[key] <= 0
        THEN <<with_list(g, popped), saldo, results>>
        ELSE <<with_list([g EXCEPT !.quotas[m] = @ - 1, !.produced = @ + 1,
                                   !.idx = @ + 1], rotated),
               [saldo EXCEPT ![key] = @ - 1],
               Append(results, Event(a.day_date, prod, m, merc, year, month))>>

AllocateDayStep ==
    /\ pc = "alloc"
    /\ loop_condition(ad)
    /\ ad.model_order # <<>>
    /\ LET r == day_step(ad, saldo_prod, results_month, months[mi][1], months[mi][2])
       IN  /\ ad' = r[1]
           /\ saldo_prod' = r[2]
           /\ results_month' = r[3]
    /\ UNCHANGED <<inputs, pc, mi, all_rows, relatorios, necessario_inicial,
                   used_weekdays, saturday_plan, remaining_to_allocate, di, err, out,
                   quota_vars>>

\* the loop ends (condition false, or the break of line 387) and allocate_day
\* returns to the loop that called it (line 429 for a weekday)
AllocateDayReturn ==
    /\ pc = "alloc"
    /\ ~loop_condition(ad) \/ ad.model_order = <<>>
    /\ pc' = ad.caller
    /\ di' = di + 1
    /\ remaining_to_allocate' = IF ad.caller = "weekdays" THEN SumSeq(saldo_prod)
                                ELSE remaining_to_allocate
    /\ UNCHANGED <<inputs, mi, all_rows, relatorios, saldo_prod, necessario_inicial,
                   used_weekdays, saturday_plan, results_month, ad, err, out,
                   quota_vars>>

(***************************************************************************)
(* schedule_month: terminal check (436-439); build_schedule: report        *)
(***************************************************************************)
\* mutant: the terminal check is missing
ScheduleMonthEnd_NoCheck ==
    /\ pc = "check"
    /\ pc' = "report"
    /\ UNCHANGED <<inputs, mi, all_rows, relatorios, month_vars, err, out, quota_vars>>

ScheduleMonthEnd ==
    /\ pc = "check"
    /\ IF SumSeq(saldo_prod) # 0
       THEN /\ pc' = "raised"
            /\ err' = Some([kind |-> "incomplete", qty |-> SumSeq(saldo_prod),
                            year |-> months[mi][1], month |-> months[mi][2]])
       ELSE /\ pc' = "report"
            /\ err' = err
    /\ UNCHANGED <<inputs, mi, all_rows, relatorios, month_vars, out, quota_vars>>

CountSat(rows) == Len(SelectSeq(rows, LAMBDA e : weekday(e.date) = SATURDAY))

\* lines 479-493, with dias_uteis and capacidade of lines 456-458
MonthReport(y, m, month_plan_rows, necessario, feriados, WEEKDAY_CAP) ==
    LET dias_uteis == Len(business_days_in_month(y, m, feriados))
        capacidade == dias_uteis * WEEKDAY_CAP
        programado_total == Len(month_plan_rows)
    IN  [year |-> y, month |-> m, dias_uteis |-> dias_uteis,
         capacidade |-> capacidade, necessario |-> necessario,
         programado |-> programado_total,
         unid_dia_extra |-> CountSat(month_plan_rows),
         desvio |-> programado_total - necessario,
         utilizacao |-> IF capacidade > 0 THEN <<programado_total, capacidade>>
                        ELSE <<0, 1>>]

BuildReport ==
    /\ pc = "report"
    /\ relatorios' = Append(relatorios,
                            MonthReport(months[mi][1], months[mi][2], results_month,
                                        SumSeq(df_agg[mi]), feriados_set,
                                        capacidade_dia_util))
    /\ all_rows' = all_rows \o results_month
    /\ mi' = mi + 1
    /\ pc' = "build"
    /\ UNCHANGED <<inputs, month_vars, err, out, quota_vars>>

(***************************************************************************)
(* finalize_output, lines 498-510, and the UI block, lines 568-570, 605    *)
(***************************************************************************)
\* row a sorts at or before row b by ["date", "MODELO", "PRODUTO"]
key_leq(a, b) ==
    \/ a.date < b.date
    \/ a.date = b.date /\ NameRank(a.MODELO) < NameRank(b.MODELO)
    \/ a.date = b.date /\ a.MODELO = b.MODELO
          /\ ProductRank(a.PRODUTO) <= ProductRank(b.PRODUTO)

\* mutant: x goes before the rows whose key equals its own
RECURSIVE insert_unstable(_, _)
insert_unstable(sorted, x) ==
    IF sorted = <<>> THEN <<x>>
    ELSE IF key_leq(Head(sorted), x) /\ ~key_leq(x, Head(sorted))
         THEN <<Head(sorted)>> \o insert_unstable(Tail(sorted), x)
         ELSE <<x>> \o sorted

\* x goes after every row of the sorted list whose key is <= its own
RECURSIVE insert_stable(_, _)
insert_stable(sorted, x) ==
    IF sorted = <<>> THEN <<x>>
    ELSE IF key_leq(Head(sorted), x)
         THEN <<Head(sorted)>> \o insert_stable(Tail(sorted), x)
         ELSE <<x>> \o sorted

RECURSIVE sort_values(_, _)
sort_values(rows, sorted) ==
    IF rows = <<>> THEN sorted
    ELSE sort_values(Tail(rows), insert_stable(sorted, Head(rows)))

\* "fila " + str(i) is kept as the pair <<"fila", i>>
finalize_output(rows) ==
    LET prog == sort_values(rows, <<>>)
    IN  [i \in 1..Len(prog) |->
            [date |-> prog[i].date, PRODUTO |-> prog[i].PRODUTO,
             MODELO |-> prog[i].MODELO, MERCADO |-> prog[i].MERCADO,
             mes_ref_year |-> prog[i].mes_ref_year,
             mes_ref_month |-> prog[i].mes_ref_month,
             ID |-> <<"fila", i>>]]

\* build_schedule returns (line 495) and the UI block finalizes and shows it
BuildScheduleReturn ==
    /\ pc = "build"
    /\ mi > Len(months)
    /\ out' = [status |-> "success", prog |-> finalize_output(all_rows),
               rel |-> relatorios]
    /\ pc' = "done"
    /\ UNCHANGED <<inputs, mi, all_rows, relatorios, month_vars, err, quota_vars>>

\* mutant: the handler shows what was scheduled before the failure
UIError_Partial ==
    /\ pc = "raised"
    /\ out' = [status |-> "error", prog |-> finalize_output(all_rows),
               rel |-> relatorios]
    /\ pc' = "done"
    /\ UNCHANGED <<inputs, mi, all_rows, relatorios, month_vars, err, quota_vars>>

\* the exception leaves build_schedule and reaches "except Exception" (605)
UIError ==
    /\ pc = "raised"
    /\ out' = [status |-> "error", prog |-> <<>>, rel |-> <<>>]
    /\ pc' = "done"
    /\ UNCHANGED <<inputs, mi, all_rows, relatorios, month_vars, err, quota_vars>>

Next ==
    \/ BuildScheduleMonth
    \/ WeekdayLoop
    \/ SaturdayLoop
    \/ AllocateDayStep
    \/ AllocateDayReturn
    \/ ScheduleMonthEnd
    \/ BuildReport
    \/ BuildScheduleReturn
    \/ UIError

\* a horizon of one month
Init == InitWith(OneMonth, MaxUnits)

Spec == Init /\ [][Next]_vars

\* a horizon of two consecutive months
InitHorizon == InitWith(TwoMonths, MaxHorizonUnits)

SpecHorizon == InitHorizon /\ [][Next]_vars

\* one month without holidays, with days of capacity 3..MaxDayCap that take
\* several units of several models
InitDay ==
    /\ intervalo \in OneMonth
    /\ df_agg \in DayDemands
    /\ limite_diario_por_modelo \in 0..MaxDayLimit
    /\ teto_sabado = 1
    /\ capacidade_dia_util \in 3..MaxDayCap
    /\ feriados_set = {}
    /\ dias_uteis_anteriores = 0
    /\ pc = "build"
    /\ mi = 1
    /\ all_rows = <<>>
    /\ relatorios = <<>>
    /\ saldo_prod = <<>>
    /\ necessario_inicial = 0
    /\ used_weekdays = <<>>
    /\ saturday_plan = <<>>
    /\ results_month = <<>>
    /\ remaining_to_allocate = 0
    /\ di = 0
    /\ ad = NoDay
    /\ err = None
    /\ out = [status |-> "none", prog |-> <<>>, rel |-> <<>>]
    /\ qin = NoQuotaCall
    /\ qout = <<>>
    /\ cin = NoCalendarCall
    /\ cout = <<>>

SpecDay == InitDay /\ [][Next]_vars

(***************************************************************************)
(* proportional_quotas called on its own with arbitrary arguments          *)
(***************************************************************************)
ModelLists ==
    {l \in UNION {[1..n -> ModelSet] : n \in 0..Len(ModelNames)} :
        \A i, j \in 1..Len(l) : i # j => l[i] # l[j]}

QuotaCalls ==
    {[models |-> l, bal |-> b, S |-> S, limit |-> lim] :
        l \in ModelLists, b \in [ModelSet -> 0..MaxBalance], S \in 0..MaxS,
        lim \in {None} \cup {Some(c) : c \in 0..MaxQLimit}}

\* calls over two models with larger balances, where a per-model limit can
\* clamp one model far below its share
WideQuotaCalls ==
    {[models |-> l, bal |-> b, S |-> S, limit |-> lim] :
        l \in {x \in ModelLists : Len(x) = 2},
        b \in [ModelSet -> 0..MaxWideBalance], S \in 0..MaxS,
        lim \in {None} \cup {Some(c) : c \in 0..MaxQLimit}}

\* balances 30 and 10 against a day capacity of 10, no limit, under every
\* pair of names and both orders of the keys
ScenarioCCalls ==
    UNION {{[models |-> l, bal |-> b, S |-> 10, limit |-> None] :
               b \in {f \in [ModelSet -> {0, 10, 30}] :
                         {f[l[1]], f[l[2]]} = {10, 30}}} :
           l \in {x \in ModelLists : Len(x) = 2}}

InitQuotas ==
    /\ qin \in {c \in QuotaCalls \cup WideQuotaCalls \cup ScenarioCCalls :
                  \A m \in ModelSet \ SeqRange(c.models) : c.bal[m] = 0}
    /\ qout = <<>>
    /\ cin = NoCalendarCall
    /\ cout = <<>>
    /\ pc = "quota_call"
    /\ intervalo = << <<2026, 7>>, <<2026, 7>> >>
    /\ df_agg = << [i \in 1..NRows |-> 0] >>
    /\ limite_diario_por_modelo = 0
    /\ teto_sabado = 1
    /\ capacidade_dia_util = 1
    /\ feriados_set = {}
    /\ dias_uteis_anteriores = 0
    /\ mi = 1
    /\ all_rows = <<>>
    /\ relatorios = <<>>
    /\ saldo_prod = <<>>
    /\ necessario_inicial = 0
    /\ used_weekdays = <<>>
    /\ saturday_plan = <<>>
    /\ results_month = <<>>
    /\ remaining_to_allocate = 0
    /\ di = 0
    /\ ad = NoDay
    /\ err = None
    /\ out = [status |-> "none", prog |-> <<>>, rel |-> <<>>]

CallProportionalQuotas ==
    /\ pc = "quota_call"
    /\ \E r \in quota_results(qin.models, qin.bal, qin.S, qin.limit) : qout' = r
    /\ pc' = "quota_done"
    /\ UNCHANGED <<inputs, mi, all_rows, relatorios, month_vars, err, out, qin, cin, cout>>

NextQuotas == CallProportionalQuotas

SpecQuotas == InitQuotas /\ [][NextQuotas]_vars

(***************************************************************************)
(* previous_business_days called on its own: any month of two years, with  *)
(* holidays around the turn of June/July, at the end of July (1 August     *)
(* 2026 is a Saturday) and around the new year                             *)
(***************************************************************************)
CalendarHolidays ==
    { date(2026, 6, 30), date(2026, 7, 1), date(2026, 7, 2), date(2026, 7, 31),
      date(2026, 12, 31), date(2027, 1, 1) }

CalendarCalls ==
    [year : {2026, 2027}, month : 1..12, n : 0..MaxPrevDays,
     feriados : SUBSET CalendarHolidays]

InitCalendar ==
    /\ cin \in CalendarCalls
    /\ cout = <<>>
    /\ pc = "calendar_call"
    /\ qin = NoQuotaCall
    /\ qout = <<>>
    /\ intervalo = << <<2026, 7>>, <<2026, 7>> >>
    /\ df_agg = << [i \in 1..NRows |-> 0] >>
    /\ limite_diario_por_modelo = 0
    /\ teto_sabado = 1
    /\ capacidade_dia_util = 1
    /\ feriados_set = {}
    /\ dias_uteis_anteriores = 0
    /\ mi = 1
    /\ all_rows = <<>>
    /\ relatorios = <<>>
    /\ saldo_prod = <<>>
    /\ necessario_inicial = 0
    /\ used_weekdays = <<>>
    /\ saturday_plan = <<>>
    /\ results_month = <<>>
    /\ remaining_to_allocate = 0
    /\ di = 0
    /\ ad = NoDay
    /\ err = None
    /\ out = [status |-> "none", prog |-> <<>>, rel |-> <<>>]

CallPreviousBusinessDays ==
    /\ pc = "calendar_call"
    /\ cout' = [first |-> first_business_day(cin.year, cin.month, cin.feriados),
                prev |-> previous_business_days(cin.year, cin.month, cin.n,
                                                cin.feriados)]
    /\ pc' = "calendar_done"
    /\ UNCHANGED <<inputs, mi, all_rows, relatorios, month_vars, err, out, qin, qout, cin>>

NextCalendar == CallPreviousBusinessDays

SpecCalendar == InitCalendar /\ [][NextCalendar]_vars

(***************************************************************************)
(* Properties                                                              *)
(***************************************************************************)
EventsOn(rows, d) == Cardinality({i \in 1..Len(rows) : rows[i].date = d})

EventsOfKey(rows, k) ==
    Cardinality({i \in 1..Len(rows) :
                    /\ rows[i].PRODUTO = Rows[k].PRODUTO
                    /\ rows[i].MERCADO = Rows[k].MERCADO
                    /\ rows[i].MODELO = Rows[k].MODELO})

EventDates(rows) == {rows[i].date : i \in 1..Len(rows)}

\* the month schedule_month is working on, and its calendar
CurYear == months[mi][1]
CurMonth == months[mi][2]
CurWeekdays ==
    all_weekdays_of(CurYear, CurMonth, dias_uteis_anteriores, feriados_set)
CurSaturdays == saturdays_in_month(CurYear, CurMonth, feriados_set)
CurWeekdayCapacity == Len(CurWeekdays) * capacidade_dia_util
InMonth == pc \in {"weekdays", "saturdays", "alloc", "check", "report"}
CeilDiv(a, b) == (a + b - 1) \div b

\* C1 (exactness): when schedule_month returns normally, every (product,
\* market, model) key has exactly as many events as its monthly quantity,
\* every ledger entry is 0, the number of events is the total demand, and
\* every report written has deviation 0.
C1_Exactness ==
    /\ pc = "report" =>
          /\ \A k \in 1..NRows :
                /\ EventsOfKey(results_month, k) = df_agg[mi][k]
                /\ saldo_prod[k] = 0
          /\ Len(results_month) = SumSeq(df_agg[mi])
    /\ \A r \in 1..Len(relatorios) : relatorios[r].desvio = 0

C1_Witness ==
    /\ pc = "report"
    /\ Len(results_month) >= 3
    /\ Cardinality({k \in 1..NRows : df_agg[mi][k] > 0}) >= 2
    /\ saturday_plan # <<>>

\* C2 (capacity bound within one month): in the events of one schedule_month
\* call no Monday-Friday date has more than dailyCapacity events and no
\* Saturday has more than saturdayCap events.
C2_CapacityBound ==
    \A d \in EventDates(results_month) :
        IF weekday(d) = SATURDAY
        THEN EventsOn(results_month, d) <= teto_sabado
        ELSE EventsOn(results_month, d) <= capacidade_dia_util

C2_Witness ==
    /\ pc = "report"
    /\ \E d \in EventDates(results_month) :
          weekday(d) = SATURDAY /\ EventsOn(results_month, d) = teto_sabado
    /\ \E d \in EventDates(results_month) :
          weekday(d) < 5 /\ EventsOn(results_month, d) = capacidade_dia_util
    /\ SumSeq(df_agg[mi]) > capacidade_dia_util + teto_sabado

\* C3 (no IncompleteAllocation): with valid parameters the terminal check of
\* schedule_month never fails.
C3_NeverIncomplete ==
    ~(pc = "raised" /\ err # None /\ err[1].kind = "incomplete")

\* C4 (capacity bound across the horizon): with lookback > 0, no weekday date
\* of the GlobalSchedule has more than dailyCapacity events, the events of all
\* reference months counted together.
C4_HorizonCapacityBound ==
    (out.status = "success" /\ dias_uteis_anteriores > 0) =>
        \A d \in EventDates(out.prog) :
            weekday(d) < 5 => EventsOn(out.prog, d) <= capacidade_dia_util

\* C5 (apportionment soundness): every quota returned by proportional_quotas
\* is a non-negative integer, at most the model's balance and at most the cap
\* when one is supplied, and the quotas sum to at most S.
C5_ApportionmentSound ==
    pc = "quota_done" =>
        /\ DOMAIN qout = SeqRange(qin.models)
        /\ \A m \in SeqRange(qin.models) :
              /\ qout[m] \in Nat
              /\ qout[m] <= qin.bal[m]
              /\ qin.limit # None => qout[m] <= qin.limit[1]
        /\ SumOver(qin.models, qout) <= qin.S

C5_Witness ==
    /\ pc = "quota_done"
    /\ Len(qin.models) = 3
    /\ qin.limit = Some(2)
    /\ SumOver(qin.models, qout) < qin.S
    /\ \E m \in SeqRange(qin.models) : qout[m] = 2 /\ qin.bal[m] > 2
    /\ \E m \in SeqRange(qin.models) : qout[m] = qin.bal[m] /\ qout[m] = 1

\* C6 (overflow failure): schedule_month fails with the overflow error exactly
\* when the total demand exceeds (lookback days + business days) * dailyCapacity
\* + (non-holiday Saturdays of the month) * saturdayCap; the quantity of the
\* error is the difference; and at the failure no day has been allocated.
C6_TotalCapacity ==
    (Len(previous_business_days(CurYear, CurMonth, dias_uteis_anteriores, feriados_set))
       + Len(business_days_in_month(CurYear, CurMonth, feriados_set)))
         * capacidade_dia_util
    + Len(CurSaturdays) * teto_sabado

C6_OverflowFailure ==
    /\ InMonth => SumSeq(df_agg[mi]) <= C6_TotalCapacity
    /\ (pc = "raised" /\ err # None /\ err[1].kind = "overflow") =>
          /\ SumSeq(df_agg[mi]) > C6_TotalCapacity
          /\ err[1].qty = SumSeq(df_agg[mi]) - C6_TotalCapacity
          /\ results_month = <<>>
          /\ saldo_prod = df_agg[mi]
          /\ ad = NoDay

C6_Witness ==
    /\ pc = "raised"
    /\ err # None /\ err[1].kind = "overflow"
    /\ err[1].qty = 1
    /\ dias_uteis_anteriores > 0
    /\ Len(CurSaturdays) > 0

\* C7 (fail-fast): when the scheduling of a month fails, the run ends with
\* neither events nor reports, those of the earlier months included.
C7_FailFast ==
    (pc = "done" /\ err # None) =>
        /\ out.status = "error"
        /\ out.prog = <<>>
        /\ out.rel = <<>>

C7_Witness ==
    /\ pc = "done"
    /\ err # None
    /\ mi = 2
    /\ all_rows # <<>>
    /\ relatorios # <<>>

C9_SaturdayShare(k, x) ==
    IF x - (k - 1) * teto_sabado <= 0 THEN 0
    ELSE Min(teto_sabado, x - (k - 1) * teto_sabado)

C9_ReportWeekdayCapacity(r) ==
    Len(all_weekdays_of(r.year, r.month, dias_uteis_anteriores, feriados_set))
        * capacidade_dia_util

\* C9 (overflow month): when totalDemand > weekdayCapacity and the month
\* succeeds, every day of lookback ++ business days carries dailyCapacity
\* events, the Saturdays carry min(saturdayCap, remaining excess) in
\* chronological order and nothing once the excess is absorbed, and the
\* report's unid_dia_extra is totalDemand - weekdayCapacity.
C9_OverflowMonth ==
    /\ (pc = "report" /\ SumSeq(df_agg[mi]) > CurWeekdayCapacity) =>
          /\ \A i \in 1..Len(CurWeekdays) :
                EventsOn(results_month, CurWeekdays[i]) = capacidade_dia_util
          /\ \A k \in 1..Len(CurSaturdays) :
                EventsOn(results_month, CurSaturdays[k])
                   = C9_SaturdayShare(k, SumSeq(df_agg[mi]) - CurWeekdayCapacity)
    /\ \A r \in 1..Len(relatorios) :
          relatorios[r].necessario > C9_ReportWeekdayCapacity(relatorios[r]) =>
             relatorios[r].unid_dia_extra
                = relatorios[r].necessario - C9_ReportWeekdayCapacity(relatorios[r])

C9_Witness ==
    /\ relatorios # <<>>
    /\ relatorios[1].unid_dia_extra = 2
    /\ teto_sabado = 2
    /\ Len(saturdays_in_month(relatorios[1].year, relatorios[1].month, feriados_set)) = 2
    /\ dias_uteis_anteriores = 0

\* C10 (priority ordering): in the events of one allocate_day call no event of
\* a model for a non-domestic market follows an event of that model for the
\* domestic market; while the day is being allocated, a model that already
\* has a domestic event that day has no non-domestic ledger entry left.
C10_PriorityOrdering ==
    /\ \A i, j \in 1..Len(results_month) :
          (i < j /\ results_month[i].date = results_month[j].date
                 /\ results_month[i].MODELO = results_month[j].MODELO
                 /\ StripUpper(results_month[i].MERCADO) = "MERCADO INTERNO")
             => StripUpper(results_month[j].MERCADO) = "MERCADO INTERNO"
    /\ pc = "alloc" =>
          \A i \in 1..Len(results_month) :
             (results_month[i].date = ad.day_date
                 /\ StripUpper(results_month[i].MERCADO) = "MERCADO INTERNO")
             => \A k \in 1..NRows :
                   (Rows[k].MODELO = results_month[i].MODELO
                       /\ StripUpper(Rows[k].MERCADO) # "MERCADO INTERNO")
                   => saldo_prod[k] = 0

C10_Witness ==
    \E i, j \in 1..Len(results_month) :
        /\ i < j
        /\ results_month[i].date = results_month[j].date
        /\ results_month[i].MODELO = "A"
        /\ results_month[j].MODELO = "A"
        /\ results_month[i].MERCADO = "EXPORT"
        /\ results_month[j].MERCADO = "MERCADO INTERNO"

\* the models of a Scenario C call that hold the balances 30 and 10
ScenarioCBig == CHOOSE m \in SeqRange(qin.models) : qin.bal[m] = 30
ScenarioCSmall == CHOOSE m \in SeqRange(qin.models) : qin.bal[m] = 10

\* C11 as stated (Scenario C): with balances 30 and 10, capacity 10 and no
\* per-model limit, proportional_quotas returns 8 for the balance-30 model and
\* 2 for the balance-10 model, whatever the names and the order of the keys.
C11_ScenarioC ==
    (pc = "quota_done" /\ qin \in ScenarioCCalls) =>
        /\ qout[ScenarioCBig] = 8
        /\ qout[ScenarioCSmall] = 2

\* C11 (amended): in Scenario C the two remainders are both 0.5, the extra
\* unit goes to the model with the greater name, so the result is 8 and 2
\* when the balance-30 model has the greater name and 7 and 3 otherwise,
\* independently of the order of the keys; the quotas sum to 10 either way.
C11_ScenarioC_ByName ==
    (pc = "quota_done" /\ qin \in ScenarioCCalls) =>
        /\ qout[ScenarioCBig] + qout[ScenarioCSmall] = 10
        /\ IF NameRank(ScenarioCBig) > NameRank(ScenarioCSmall)
           THEN qout[ScenarioCBig] = 8 /\ qout[ScenarioCSmall] = 2
           ELSE qout[ScenarioCBig] = 7 /\ qout[ScenarioCSmall] = 3

C11_Witness ==
    /\ pc = "quota_done"
    /\ qin \in ScenarioCCalls
    /\ qin.models[1] = ScenarioCBig
    /\ qout[ScenarioCBig] = 7
    /\ qout[ScenarioCSmall] = 3

\* C12 (largest-remainder fairness): with no per-model limit, any two models
\* with equal balances receive quotas that differ by at most 1.
C12_EqualBalancesFair ==
    (pc = "quota_done" /\ qin.limit = None) =>
        \A a, b \in SeqRange(qin.models) :
            qin.bal[a] = qin.bal[b] =>
                /\ qout[a] - qout[b] <= 1
                /\ qout[b] - qout[a] <= 1

C12_Witness ==
    /\ pc = "quota_done"
    /\ qin.limit = None
    /\ Len(qin.models) = 3
    /\ \E a, b \in SeqRange(qin.models) :
          /\ qin.bal[a] = qin.bal[b]
          /\ qin.bal[a] >= 2
          /\ qout[a] = qout[b] + 1
          /\ qout[b] >= 1

\* the ceiling min(balance, limit) of model m in the call qin
QuotaCeiling(m) ==
    IF qin.limit # None THEN Min(qin.bal[m], qin.limit[1]) ELSE qin.bal[m]

\* C18 (the apportioner exhausts the remainder): for total > 0 and S > 0, at
\* return either the quotas sum to exactly S or every model is at its ceiling
\* min(balance, limit); with no limit the quotas sum to exactly min(S, total).
C18_RemainderExhausted ==
    (/\ pc = "quota_done"
     /\ qin.S > 0
     /\ SumOver(qin.models, qin.bal) > 0) =>
        /\ \/ SumOver(qin.models, qout) = qin.S
           \/ \A m \in SeqRange(qin.models) : qout[m] = QuotaCeiling(m)
        /\ qin.limit = None =>
              SumOver(qin.models, qout) = Min(qin.S, SumOver(qin.models, qin.bal))

\* the sort key (date, model, product) of an event, and its order
SortKey(e) == <<e.date, NameRank(e.MODELO), ProductRank(e.PRODUTO)>>

KeyBefore(a, b) ==
    \/ a[1] < b[1]
    \/ a[1] = b[1] /\ a[2] < b[2]
    \/ a[1] = b[1] /\ a[2] = b[2] /\ a[3] < b[3]

WithoutID(e) ==
    [date |-> e.date, PRODUTO |-> e.PRODUTO, MODELO |-> e.MODELO,
     MERCADO |-> e.MERCADO, mes_ref_year |-> e.mes_ref_year,
     mes_ref_month |-> e.mes_ref_month]

EventsWithKey(rows, k) == SelectSeq(rows, LAMBDA e : SortKey(e) = k)

\* C13 (global ID ordering): after finalize_output the N events of the horizon
\* carry the IDs "fila 1" .. "fila N", each once; the ID number is
\* non-decreasing in (date, model, product); events with equal keys keep the
\* order in which they were created.
C13_GlobalIdOrdering ==
    out.status = "success" =>
        LET prog == out.prog
            N == Len(all_rows)
        IN  /\ Len(prog) = N
            /\ \A i \in 1..N : prog[i].ID = <<"fila", i>>
            /\ \A i, j \in 1..N :
                  i < j => ~KeyBefore(SortKey(prog[j]), SortKey(prog[i]))
            /\ \A i \in 1..N :
                  EventsWithKey([n \in 1..N |-> WithoutID(prog[n])],
                                SortKey(all_rows[i]))
                      = EventsWithKey(all_rows, SortKey(all_rows[i]))

C13_Witness ==
    /\ out.status = "success"
    /\ Len(out.prog) = 3
    /\ \E i, j \in 1..Len(out.prog) :
          /\ i < j
          /\ SortKey(out.prog[i]) = SortKey(out.prog[j])
          /\ out.prog[i].mes_ref_month = 7
          /\ out.prog[j].mes_ref_month = 8

\* events of model m dated d
EventsOfModelOn(rows, m, d) ==
    Cardinality({i \in 1..Len(rows) : rows[i].date = d /\ rows[i].MODELO = m})

\* C14 (per-model daily cap): with a per-model daily cap c > 0, no model has
\* more than c events on any date in the events of one schedule_month call;
\* with the cap 0 no per-model limit applies: the quotas of a day add up to
\* the day capacity or to the whole open balance.
C14_PerModelCap ==
    /\ limite_diario_por_modelo > 0 =>
          \A d \in EventDates(results_month) : \A m \in ModelSet :
              EventsOfModelOn(results_month, m, d) <= limite_diario_por_modelo
    /\ (pc = "alloc" /\ ad.guard = 0 /\ limite_diario_por_modelo = 0) =>
          SumOver(ad.qkeys, ad.quotas0) = Min(ad.S, SumSeq(saldo_prod))

C14_Witness ==
    /\ pc = "alloc"
    /\ limite_diario_por_modelo = 1
    /\ ad.S = 2
    /\ Len(ad.qkeys) = 2
    /\ \E m \in SeqRange(ad.qkeys) :
          /\ EventsOfModelOn(results_month, m, ad.day_date) = 1
          /\ \E k \in 1..NRows : Rows[k].MODELO = m /\ saldo_prod[k] > 0

\* calendar facts stated on the dates themselves
IsBusinessDay(d) == weekday(d) < 5 /\ d \notin feriados_set

InMonthOf(d, y, m) == date(y, m, 1) <= d /\ d <= date(y, m, monthrange(y, m))

FirstBusinessDayOf(y, m) ==
    CHOOSE x \in date(y, m, 1) .. (date(y, m, 1) + 90) :
        IsBusinessDay(x) /\ \A z \in date(y, m, 1) .. (x - 1) : ~IsBusinessDay(z)

\* d is one of the n business days right before the first business day of (y, m)
InLookback(d, y, m, n) ==
    /\ IsBusinessDay(d)
    /\ d < FirstBusinessDayOf(y, m)
    /\ Cardinality({x \in d .. (FirstBusinessDayOf(y, m) - 1) : IsBusinessDay(x)}) <= n

ValidEventDate(e) ==
    LET d == e.date
        y == e.mes_ref_year
        m == e.mes_ref_month
    IN  /\ d \notin feriados_set
        /\ weekday(d) # 6
        /\ d <= date(y, m, monthrange(y, m))
        /\ \/ IsBusinessDay(d) /\ InMonthOf(d, y, m)
           \/ InLookback(d, y, m, dias_uteis_anteriores)
           \/ weekday(d) = 5 /\ InMonthOf(d, y, m)

\* C15 (calendar validity): every event of reference month M is dated on a
\* non-holiday Monday-Friday of M or of the lookback business days before M's
\* first business day, or on a non-holiday Saturday of M; never on a Sunday,
\* a holiday, a Saturday outside M or a date after the last day of M.
C15_CalendarValidity ==
    /\ \A i \in 1..Len(all_rows) : ValidEventDate(all_rows[i])
    /\ \A i \in 1..Len(results_month) : ValidEventDate(results_month[i])

C15_Witness ==
    /\ feriados_set # {}
    /\ \E i, j \in 1..Len(all_rows) :
          /\ all_rows[i].date < date(all_rows[i].mes_ref_year, all_rows[i].mes_ref_month, 1)
          /\ weekday(all_rows[j].date) = 5
    /\ \E i \in 1..Len(all_rows) : all_rows[i].mes_ref_month = 8

\* C16 as stated (report capacity): the weekday capacity of a month report is
\* the one schedule_month used to plan the month, (lookback business days +
\* business days of the month) * daily capacity, and the utilization is the
\* scheduled total over that capacity, for every lookback >= 0.
C16_ReportCapacity ==
    \A r \in 1..Len(relatorios) :
        relatorios[r].necessario > 0 =>
            LET used == Len(all_weekdays_of(relatorios[r].year, relatorios[r].month,
                                            dias_uteis_anteriores, feriados_set))
                          * capacidade_dia_util
            IN  /\ relatorios[r].capacidade = used
                /\ relatorios[r].utilizacao = <<relatorios[r].programado, used>>

\* C17 (lookback window): previous_business_days(year, month, n) returns
\* exactly n dates in ascending order, each a non-holiday Monday-Friday
\* strictly before first_business_day(year, month), and they are the n such
\* dates closest to it; for n = 0 the list is empty.
C17_LookbackWindow ==
    pc = "calendar_done" =>
        LET prev == cout.prev
            Business(d) == weekday(d) < 5 /\ d \notin cin.feriados
        IN  /\ Len(prev) = cin.n
            /\ cin.n = 0 => prev = <<>>
            /\ \A i \in 1..Len(prev) : Business(prev[i]) /\ prev[i] < cout.first
            /\ \A i, j \in 1..Len(prev) : i < j => prev[i] < prev[j]
            /\ \A i \in 1..Len(prev) :
                  \A d \in prev[i] .. (cout.first - 1) :
                      Business(d) => d \in SeqRange(prev)

C17_Witness ==
    /\ pc = "calendar_done"
    /\ cin.n = 3
    /\ cin.month = 1
    /\ Len(cout.prev) = 3
    /\ cout.first - cout.prev[1] >= 6
    /\ \E d \in cin.feriados : cout.prev[1] < d /\ d < cout.first

\* what one step of the allocation of a month does to the ledger
LedgerStep ==
    pc \in {"weekdays", "saturdays", "alloc", "check"} =>
        IF results_month' # results_month
        THEN /\ Len(results_month') = Len(results_month) + 1
             /\ SubSeq(results_month', 1, Len(results_month)) = results_month
             /\ LET e == results_month'[Len(results_month')]
                    k == CHOOSE i \in 1..NRows :
                            /\ Rows[i].PRODUTO = e.PRODUTO
                            /\ Rows[i].MERCADO = e.MERCADO
                            /\ Rows[i].MODELO = e.MODELO
                IN  saldo_prod' = [saldo_prod EXCEPT ![k] = @ - 1]
        ELSE /\ DOMAIN saldo_prod' = DOMAIN saldo_prod
             /\ \A k \in DOMAIN saldo_prod : saldo_prod'[k] <= saldo_prod[k]

\* C19 (ledger invariant): throughout the allocation every ledger entry is
\* >= 0; each step that appends an event decrements exactly the entry of the
\* event's key by 1 and leaves the others unchanged; no step increases an
\* entry; no event is appended without its decrement.
C19_LedgerInvariant ==
    /\ [](\A k \in DOMAIN saldo_prod : saldo_prod[k] >= 0)
    /\ [][LedgerStep]_vars

C19_Witness ==
    /\ pc = "alloc"
    /\ ad.produced >= 2
    /\ Len(results_month) >= 4
    /\ \E k \in 1..NRows : saldo_prod[k] = 0 /\ df_agg[mi][k] = 2
    /\ \E k \in 1..NRows : saldo_prod[k] > 0

\* the models of the events of the allocate_day call in progress, in order
DayModels ==
    LET ev == SelectSeq(results_month, LAMBDA e : e.date = ad.day_date)
    IN  [i \in 1..Len(ev) |-> ev[i].MODELO]

\* how many of the first n events of the day are of model m
ServedBy(m, n) == Cardinality({i \in 1..n : DayModels[i] = m})

\* the quota of m is used up after the first n events of the day
Exhausted(m, n) == ServedBy(m, n) >= ad.quotas0[m]

OrderPos(m) == CHOOSE i \in 1..Len(ad.model_order) : ad.model_order[i] = m

\* steps from x forward to y in the cyclic model_order (a full turn if y = x)
CyclicDistance(x, y) ==
    ((OrderPos(y) - OrderPos(x) - 1 + Len(ad.model_order)) % Len(ad.model_order)) + 1

\* C20 (round-robin across models): in the events of one allocate_day call
\* the models with positive quota are served in a fixed cyclic order, one
\* unit per visit: the models passed over between two successive events are
\* exhausted; between two consecutive events of the same model every other
\* model whose quota is not exhausted has exactly one event; at any prefix
\* two models with remaining quota differ by at most 1 in units produced.
C20_RoundRobin ==
    pc = "alloc" =>
        LET E == DayModels
            N == Len(DayModels)
            served == SeqRange(ad.model_order)
        IN  /\ \A i \in 1..N : E[i] \in served
            /\ N >= 1 => E[1] = ad.model_order[1]
            /\ \A k \in 1..(N - 1) : \A z \in served :
                  CyclicDistance(E[k], z) < CyclicDistance(E[k], E[k + 1])
                      => Exhausted(z, k)
            /\ \A i, j \in 1..N :
                  (i < j /\ E[i] = E[j] /\ \A x \in (i + 1)..(j - 1) : E[x] # E[i]) =>
                      \A z \in served \ {E[i]} :
                          ~Exhausted(z, i) =>
                              Cardinality({x \in (i + 1)..(j - 1) : E[x] = z}) = 1
            /\ \A n \in 0..N : \A a, b \in served :
                  (~Exhausted(a, n) /\ ~Exhausted(b, n)) =>
                      /\ ServedBy(a, n) - ServedBy(b, n) <= 1
                      /\ ServedBy(b, n) - ServedBy(a, n) <= 1

C20_Witness ==
    /\ pc = "alloc"
    /\ Len(ad.model_order) = 3
    /\ ad.produced = 4
    /\ Len(DayModels) = 4
    /\ DayModels[1] = DayModels[4]
    /\ \E m \in SeqRange(ad.model_order) : ad.quotas0[m] = 2 /\ ad.quotas[m] = 0

\* the ledger rows of the events of the allocate_day call in progress, in order
DayEntries ==
    LET ev == SelectSeq(results_month, LAMBDA e : e.date = ad.day_date)
    IN  [i \in 1..Len(ev) |-> KeyIndex(ev[i].PRODUTO, ev[i].MERCADO, ev[i].MODELO)]

\* units taken from row k in the first n events of the day
TakenFrom(k, n) == Cardinality({i \in 1..n : DayEntries[i] = k})

\* the balance of row k when the call started
StartBalance(k) == saldo_prod[k] + TakenFrom(k, Len(DayEntries))

\* rows k1 and k2 are entries of the same model and the same market tier
SameQueue(k1, k2) ==
    /\ Rows[k1].MODELO = Rows[k2].MODELO
    /\ IsMI(Rows[k1].MERCADO) = IsMI(Rows[k2].MERCADO)

\* row z lies strictly between x and y going round the rows in first-seen order
CyclicallyBetween(x, z, y) ==
    IF x < y THEN x < z /\ z < y
    ELSE IF x > y THEN z > x \/ z < y
    ELSE z # x

\* C21 (rotation among the products of a model): within one allocate_day
\* call the units of one model and one market tier are taken from the tier's
\* (product, market) entries in rotating first-seen order, an entry being
\* passed over only when its balance is used up; two entries of the same tier
\* that both still have a positive balance differ by at most 1 in the units
\* taken from them that day, at the end of the day and at every point before.
C21_ProductRotation ==
    pc = "alloc" =>
        LET E == DayEntries
            N == Len(DayEntries)
        IN  /\ \A j \in 1..N :
                  (\A x \in 1..(j - 1) : ~SameQueue(E[x], E[j])) =>
                      \A z \in 1..NRows :
                          (SameQueue(z, E[j]) /\ z < E[j]) => StartBalance(z) = 0
            /\ \A i, j \in 1..N :
                  (/\ i < j
                   /\ SameQueue(E[i], E[j])
                   /\ \A x \in (i + 1)..(j - 1) : ~SameQueue(E[x], E[i])) =>
                      \A z \in 1..NRows :
                          (SameQueue(z, E[i]) /\ CyclicallyBetween(E[i], z, E[j])) =>
                              TakenFrom(z, i) = StartBalance(z)
            /\ \A k1, k2 \in 1..NRows :
                  (SameQueue(k1, k2) /\ saldo_prod[k1] > 0 /\ saldo_prod[k2] > 0) =>
                      /\ TakenFrom(k1, N) - TakenFrom(k2, N) <= 1
                      /\ TakenFrom(k2, N) - TakenFrom(k1, N) <= 1

\* the end of a day on which one tier of a model gave 2 units from one entry
\* and 1 from another, both with balance left
C21_Witness ==
    /\ pc = "alloc"
    /\ ~loop_condition(ad)
    /\ \E k1, k2 \in 1..NRows :
          /\ k1 # k2
          /\ SameQueue(k1, k2)
          /\ IsMI(Rows[k1].MERCADO)
          /\ saldo_prod[k1] > 0
          /\ saldo_prod[k2] > 0
          /\ TakenFrom(k1, Len(DayEntries)) = 2
          /\ TakenFrom(k2, Len(DayEntries)) = 1

\* a step of the loop of allocate_day changes a quota only by serving a unit
\* of it: the branch of lines 393-396, which zeroes a positive quota, is not
\* the step taken
NoZeroOutStep ==
    (pc = "alloc" /\ pc' = "alloc" /\ ad'.quotas # ad.quotas) =>
        /\ ad'.produced = ad.produced + 1
        /\ Len(results_month') = Len(results_month) + 1
        /\ \E m \in SeqRange(ad.qkeys) :
              ad'.quotas = [ad.quotas EXCEPT ![m] = @ - 1]

\* C22 (quotas are fully consumed): at the return of every allocate_day call
\* with S*M + K < 50000 (S the day capacity, M the number of models, K the
\* number of ledger entries) each model has exactly as many events that day
\* as proportional_quotas gave it; the loop runs at most S*M + K times, so the
\* iteration guard does not stop it; the branch that zeroes a positive quota
\* because both queues are empty is never taken.
C22_QuotasConsumed ==
    /\ [](pc = "alloc" =>
            /\ ad.guard <= ad.S * Len(ad.qkeys) + Len(saldo_prod)
            /\ (~loop_condition(ad) /\ ad.S * Len(ad.qkeys) + Len(saldo_prod) < GUARD_LIMIT) =>
                  /\ ad.guard < GUARD_LIMIT
                  /\ \A m \in SeqRange(ad.qkeys) :
                        /\ ServedBy(m, Len(DayModels)) = ad.quotas0[m]
                        /\ ad.quotas[m] = 0)
    /\ [][NoZeroOutStep]_vars

\* the end of a day with three models, with at least two iterations that
\* served nothing (an exhausted model skipped, an exhausted entry popped) and
\* a model whose last non-domestic entry ran out on its final unit
C22_Witness ==
    /\ pc = "alloc"
    /\ ~loop_condition(ad)
    /\ Len(ad.qkeys) = 3
    /\ ad.produced >= 4
    /\ ad.guard >= ad.produced + 2
    /\ \E m \in SeqRange(ad.qkeys) :
          ad.quotas0[m] >= 2 /\ Len(ad.per_model_priority[m]) = 1
                             /\ Len(model_queue(saldo_prod, m, FALSE, 1)) = 0

====
